---- MODULE Spec2Model ----
(***************************************************************************)
(* Contract-assignment pipeline of modelo_fast: the RabbitMQ consumer      *)
(* (utils/rabbitMQ_consumer.py), the offer endpoint                        *)
(* (file/api.py, utils/offered_contract.py), the DynamoDB tables           *)
(* (utils/dynamo.py) and the topic-exchange router                         *)
(* (utils/rabbitMQ_roteador.py).                                           *)
(*                                                                         *)
(* Every DynamoDB call and every broker call is one atomic step; the code  *)
(* between two calls is local to the handler and belongs to the step of    *)
(* the call that follows it.  Under Spec the DynamoDB tables answer every  *)
(* call; the broker connection of the router may fail (RouteFail).         *)
(***************************************************************************)
EXTENDS Integers, Sequences, FiniteSets, TLC

\* ------------------------------------------------------------------ bounds
\* messages published to the two consumed queues over a run
MaxSends == 3
\* the same, in the runs that follow offers
MaxOfferSends == 2

\* consumer processes (one consumer thread per application process)
Consumers == {"c1", "c2"}
\* API workers, each handling one offer request
Workers == {"w1", "w2"}
Procs == Consumers \cup Workers

\* ------------------------------------------------------------- input sets
None == "<None>"
ContractNumbers == {"123"}
\* the contract number as a request or a message body may write it: a
\* numeral, a numeral with a leading zero, a JSON number
NumberTexts == {"123", "0123"}
NumberValues == {"123", "0123", "<int 123>"}
CCBs == {"456", "789"}
OfferCCBs == {"456"}
Assignees == {"bankB", "bankX"}
Requesters == {"BANKB", "bankC"}
NewHolders == {"bankC", "bankX"}
Approved == {"bankB"}

\* settings.ROUTING_KEYS, the allow-list read from the environment
ROUTING_KEYS == {"bankB", "bankC"}

\* the values of vrParcela, written as Python writes them: a missing amount,
\* an empty one, zero and two amounts that count
Amounts == {"None", "''", "0.0", "1.0", "2.0"}

\* clients, contract dates and installment lists of the submitted payloads
Cpfs == {"11144477735", "52998224725"}
Dates == {"2024-01-10", "2024-02-10"}
SubmittedDates == {"2024-01-10"}
Installments == {[vrParcela |-> v] : v \in Amounts}
Parcelas ==
  {<<>>} \cup {<<a>> : a \in Installments}
         \cup {<<a, b>> : a \in Installments, b \in Installments}

duplicate_contract_queue == "duplicate_contract_queue"
validate_eligibility_queue == "validate_eligibility_queue"
QueueNames == {duplicate_contract_queue, validate_eligibility_queue}

\* ------------------------------------------------------------ pure helpers
\* the int values of the model, written apart from the str values
Ints == {"<int 123>"}

\* int(x): the int itself, or the int a numeral parses to
int(x) ==
  CASE x \in Ints -> x
    [] x = "123" -> "<int 123>"
    [] x = "0123" -> "<int 123>"

\* str(x): None prints as 'None', an int as its decimal digits, a string is
\* itself
Str(x) ==
  CASE x = None -> "None"
    [] x = "<int 123>" -> "123"
    [] OTHER -> x

\* str.lower() on the names of the model
Lower(s) ==
  CASE s = "bankB" -> "bankb"
    [] s = "BANKB" -> "bankb"
    [] s = "bankC" -> "bankc"
    [] s = "bankX" -> "bankx"
    [] s = "None" -> "none"
    [] OTHER -> s

\* a dict is the sequence of its <<key, value>> pairs in insertion order
Keys(data) == {data[i][1] : i \in 1..Len(data)}
Value(data, k) == data[CHOOSE i \in 1..Len(data) : data[i][1] = k][2]

\* the keys of the hashed dicts in the order Python sorts strings
SortedKeys ==
  <<"dtContrato", "nuContratoCCB", "nuContratoFacta", "nuCpf", "prazo", "vrTotal">>

\* json.dumps(data) with sort_keys left out: the pairs in insertion order
json_dumps_unsorted(data) == data

\* json.dumps(data, sort_keys=True): the pairs in the order of their keys
json_dumps(data) ==
  LET InData(k) == k \in Keys(data)
      ks == SelectSeq(SortedKeys, InData)
  IN [i \in 1..Len(ks) |-> <<ks[i], Value(data, ks[i])>>]

\* SHA-256 of the serialization; the digest is taken as collision-free, so
\* the serialization stands for it
make_hash(data) == json_dumps(data)

make_duplicity_hash(nu_contrato_facta, nu_contrato_ccb) ==
  make_hash(<< <<"nuContratoFacta", Str(nu_contrato_facta)>>,
               <<"nuContratoCCB", Str(nu_contrato_ccb)>> >>)

\* the truth value Python gives to an amount
Truthy(v) == v \notin {"None", "''", "0.0"}

\* float(v) of an amount, in units
float(v) == CASE v = "0.0" -> 0 [] v = "1.0" -> 1 [] v = "2.0" -> 2

\* vr_parcela = float(installment.vrParcela if installment.vrParcela else 0)
vr_parcela(installment) ==
  IF Truthy(installment.vrParcela) THEN float(installment.vrParcela) ELSE 0

\* the loop of generate_hash over payload.parcela
RECURSIVE total_amount(_)
total_amount(parcela) ==
  IF parcela = <<>> THEN 0 ELSE vr_parcela(Head(parcela)) + total_amount(Tail(parcela))

\* make_eligiblity_hash without the number of installments
make_eligiblity_hash_no_prazo(nu_cpf, dt_contrato, vr_total, prazo) ==
  make_hash(<< <<"nuCpf", nu_cpf>>, <<"dtContrato", dt_contrato>>,
               <<"vrTotal", vr_total>> >>)

make_eligiblity_hash(nu_cpf, dt_contrato, vr_total, prazo) ==
  make_hash(<< <<"nuCpf", nu_cpf>>, <<"dtContrato", dt_contrato>>,
               <<"vrTotal", vr_total>>, <<"prazo", prazo>> >>)

\* generate_hash / generate_hash_oferta: the pair of hashes of a payload
generate_hash(payload) ==
  <<make_duplicity_hash(payload.contrato.nuContratoCedente,
                        payload.contrato.nuContratoCCB),
    make_eligiblity_hash(payload.cliente.nuCpf, payload.contrato.dtContrato,
                         total_amount(payload.parcela), Len(payload.parcela))>>

Hashes == {make_duplicity_hash(n, c) : n \in ContractNumbers, c \in CCBs}

\* define_routing_key comparing without regard to case
define_routing_key_any_case(routing_key) ==
  IF Lower(routing_key) \notin {Lower(k) : k \in ROUTING_KEYS}
    THEN "precessao" ELSE routing_key

\* define_routing_key: `if routing_key not in list_routing_keys`
define_routing_key(routing_key) ==
  IF routing_key \notin ROUTING_KEYS THEN "precessao" ELSE routing_key

\* verify_routing_key: the same membership test, as a boolean
verify_routing_key(routing_key) ==
  IF routing_key \notin ROUTING_KEYS THEN FALSE ELSE TRUE

\* ------------------------------------------------------------------ state
VARIABLES
  inserir_contrato,    \* dedup table: set of items, key ud_hash_contrato
  recusa_contrato,     \* rejected table: set of items, key id
  detentor_contrato,   \* ownership table: set of items, key ud_hash_contrato
  historico_contrato,  \* history table: set of items, key id
  roteador_contrato,   \* messages published to the topic exchange, in order
  connections,         \* per process: router connections it opened and has not closed
  queue,               \* the two consumed queues of contracts_exchange
  pc,                  \* position of each process in its handler
  msg,                 \* message or request a process is handling
  resp,                \* status code of the ledger call of the handler (0: none yet)
  seen,                \* item read by get_item in offered_contract_dynamo
  reply,               \* HTTP status answered to an offer request (0: none yet)
  now,                 \* datetime.now(), a logical clock
  uuid,                \* uuid4(), a source of fresh ids
  sent,                \* messages published to the queues so far
  accepted,            \* per hash: inserts answered 200 since the last delete_item
  decided,             \* per hash: inserts answered 200 or 409 since the last delete_item
  removed,             \* per hash: "yes" once delete_item removed an accepted record,
                       \* "again" once an insert was accepted after that
  appended             \* per process: history items the handler it is running has
                       \* put so far

tables == <<inserir_contrato, recusa_contrato, detentor_contrato, historico_contrato>>
dedup_ghost == <<accepted, decided, removed>>
ghost == <<accepted, decided, removed, appended>>
locals == <<pc, msg, resp, seen, reply>>
vars == <<inserir_contrato, recusa_contrato, detentor_contrato, historico_contrato,
          roteador_contrato, connections, queue, pc, msg, resp, seen, reply, now, uuid, sent,
          accepted, decided, removed, appended>>

NoMsg == [type |-> "none"]

\* ------------------------------------------------------- DynamoDB tables
\* Table.get_item(Key={'ud_hash_contrato': h}): the item, if any
GetItem(table, h) == {i \in table : i.ud_hash_contrato = h}

\* Table.put_item(Item=item) on a table keyed by ud_hash_contrato: replaces
PutItem(table, item) ==
  {i \in table : i.ud_hash_contrato # item.ud_hash_contrato} \cup {item}

\* Table.put_item(Item=item) on a table keyed by id
PutItemById(table, item) == {i \in table : i.id # item.id} \cup {item}

\* delete_item under a key that matches no item
DeleteItem_other_key(table, h) == table

\* Table.delete_item(Key={'ud_hash_contrato': h}); an absent key is no error
DeleteItem(table, h) == {i \in table : i.ud_hash_contrato # h}

\* put_item without its ConditionExpression
attribute_not_exists_ignored(table, h) == TRUE

\* ConditionExpression='attribute_not_exists(ud_hash_contrato)'
attribute_not_exists(table, h) == GetItem(table, h) = {}

Init ==
  /\ inserir_contrato = {}
  /\ recusa_contrato = {}
  /\ detentor_contrato = {}
  /\ historico_contrato = {}
  /\ roteador_contrato = <<>>
  /\ connections = [p \in Procs |-> 0]
  /\ queue = [q \in QueueNames |-> <<>>]
  /\ pc = [p \in Procs |-> "idle"]
  /\ msg = [p \in Procs |-> NoMsg]
  /\ resp = [p \in Procs |-> 0]
  /\ seen = [p \in Procs |-> {}]
  /\ reply = [w \in Workers |-> 0]
  /\ now = 0
  /\ uuid = 0
  /\ sent = 0
  /\ accepted = [h \in Hashes |-> 0]
  /\ decided = [h \in Hashes |-> 0]
  /\ removed = [h \in Hashes |-> "no"]
  /\ appended = [p \in Procs |-> 0]

\* ------------------------------------------------------------ environment
Payload(nu, ccb, cessionario) ==
  [contrato |-> [nuContratoCedente |-> nu, nuContratoCCB |-> ccb],
   cessionario |-> cessionario]

Publish(q, m) ==
  /\ sent < MaxSends
  /\ sent' = sent + 1
  /\ queue' = [queue EXCEPT ![q] = Append(@, m)]
  /\ UNCHANGED <<tables, roteador_contrato, connections, locals, now, uuid, ghost>>

\* POST /enviar_contrato: the insert message of the API. The schema turns
\* the nuContratoCedente of the request into an int (nuContratoCedente: int)
\* before generate_hash reads it; the payload carries that int, written here
\* by its digits
SendContract(numbers, ccbs, assignees) ==
  \E nu \in numbers, ccb \in ccbs, cessionario \in assignees :
    Publish(duplicate_contract_queue,
            [type |-> "insert",
             hash_duplicidade |-> make_duplicity_hash(int(nu), ccb),
             cedente |-> "facta",
             payload |-> Payload(Str(int(nu)), ccb, cessionario)])

send_contract == SendContract(ContractNumbers, CCBs, Assignees)

\* the same request with the contract number as the client may write it
send_contract_number == SendContract(NumberTexts, OfferCCBs, Approved)

\* POST /enviar_contrato with the client and the installments of the payload
\* in view: generate_hash gives both hashes of the message
send_contract_parcela ==
  \E nu \in ContractNumbers, ccb \in OfferCCBs, cessionario \in Approved,
     nuCpf \in Cpfs, dtContrato \in SubmittedDates, parcela \in Parcelas :
    LET payload == [contrato |-> [nuContratoCedente |-> nu, nuContratoCCB |-> ccb,
                                  dtContrato |-> dtContrato],
                    cliente |-> [nuCpf |-> nuCpf],
                    parcela |-> parcela,
                    cessionario |-> cessionario]
    IN Publish(duplicate_contract_queue,
               [type |-> "insert",
                hash_duplicidade |-> generate_hash(payload)[1],
                hash_elegibilidade |-> generate_hash(payload)[2],
                cedente |-> "facta",
                payload |-> payload])

\* the validation process publishes a verdict to validate_eligibility_queue
PublishVerdict(numbers, ccbs) ==
  \E nu \in numbers, ccb \in ccbs, cessionario \in Approved,
     status \in BOOLEAN :
    Publish(validate_eligibility_queue,
            [nuContratoFacta |-> nu, nuContratoCCB |-> ccb,
             cessionario |-> cessionario, statusElegibilidade |-> status])

publish_eligibility == PublishVerdict(ContractNumbers, CCBs)

\* a verdict whose body writes the contract number as a numeral or as a
\* JSON number
publish_eligibility_number == PublishVerdict(NumberValues, OfferCCBs)

\* an 'offered' message on duplicate_contract_queue
publish_offered ==
  \E nu \in ContractNumbers, ccb \in OfferCCBs, cedente \in Requesters,
     cessionario \in NewHolders :
    Publish(duplicate_contract_queue,
            [type |-> "offered",
             hash_duplicidade |-> make_duplicity_hash(nu, ccb),
             cedente |-> cedente,
             payload |-> Payload(nu, ccb, cessionario)])

\* a body that json.loads rejects or that lacks a field its callback reads
\* before its first store call
Defects(q) ==
  IF q = validate_eligibility_queue
    THEN {"invalid_json", "no_cessionario"}
    ELSE {"invalid_json", "no_payload", "no_contrato", "no_cessionario"}

publish_malformed ==
  \E q \in QueueNames : \E defect \in Defects(q) :
    Publish(q, [type |-> "malformed", defect |-> defect])

\* --------------------------------------------------------------- consumer
IsEligibility(m) == "statusElegibilidade" \in DOMAIN m

\* the body parses and has the fields its callback reads
WellFormed(m) == IF IsEligibility(m) THEN TRUE ELSE m.type \in {"insert", "offered"}

\* the duplicity hash a handler works on
HashOf(m) ==
  IF IsEligibility(m)
    THEN make_duplicity_hash(m.nuContratoFacta, m.nuContratoCCB)
    ELSE m.hash_duplicidade

\* operation_type passed to process_response_and_route
OperationType(m) == IF m.type = "offered" THEN 3 ELSE 1

\* the handler is over: the consumer waits for the next delivery, the API
\* answers the request
Finish(p, status) ==
  IF p \in Consumers
    THEN /\ pc' = [pc EXCEPT ![p] = "idle"]
         /\ msg' = [msg EXCEPT ![p] = NoMsg]
         /\ resp' = [resp EXCEPT ![p] = 0]
         /\ seen' = [seen EXCEPT ![p] = {}]
         /\ UNCHANGED reply
    ELSE /\ pc' = [pc EXCEPT ![p] = "done"]
         /\ reply' = [reply EXCEPT ![p] = status]
         /\ UNCHANGED <<msg, resp, seen>>

\* a channel that hands over a delivery whether or not a callback is running
CallbackReturned_unchecked(c) == TRUE

\* channel.start_consuming() runs the callbacks of the channel one after the
\* other in the calling thread: the next delivery waits for the return of
\* the callback that is running
CallbackReturned(c) == pc[c] = "idle"

\* basic_consume(..., auto_ack=True): the broker drops the message as it
\* hands it to the callback registered for the queue
Deliver(c, q) ==
  /\ CallbackReturned(c)
  /\ queue[q] # <<>>
  /\ WellFormed(Head(queue[q]))
  /\ queue' = [queue EXCEPT ![q] = Tail(@)]
  /\ msg' = [msg EXCEPT ![c] = Head(queue[q])]
  /\ pc' = [pc EXCEPT ![c] =
       IF q = validate_eligibility_queue
         THEN (IF Head(queue[q]).statusElegibilidade THEN "el_put" ELSE "el_del")
         ELSE (IF Head(queue[q]).type = "insert" THEN "ins_put" ELSE "off_get")]
  /\ UNCHANGED <<tables, roteador_contrato, connections, resp, seen, reply, now, uuid, sent, ghost>>

\* a malformed body is delivered. validate_eligibility runs inside
\* try/except Exception: the error is logged and the callback returns.
\* message_callback has no try: json.loads, payload.get on a missing payload
\* or the subscript of a missing field raises before any store call, the
\* exception leaves start_consuming and the consumer thread ends.
DeliverMalformed(c, q) ==
  /\ CallbackReturned(c)
  /\ queue[q] # <<>>
  /\ ~WellFormed(Head(queue[q]))
  /\ queue' = [queue EXCEPT ![q] = Tail(@)]
  /\ IF q = validate_eligibility_queue
       THEN UNCHANGED <<pc, msg>>
       ELSE /\ pc' = [pc EXCEPT ![c] = "dead"]
            /\ msg' = [msg EXCEPT ![c] = Head(queue[q])]
  /\ UNCHANGED <<tables, roteador_contrato, connections, resp, seen, reply, now, uuid, sent, ghost>>

\* process_response_and_route without the test of the status code
AfterResponse_always_route(status) == "route"

\* process_response_and_route: `if response.status_code == 200` routes and
\* then writes the history entry, anything else only writes the entry
AfterResponse(status) == IF status = 200 THEN "route" ELSE "hist"

\* handle_insert_operation -> insert_contract_dynamo: the conditional put
insert_contract_dynamo(c) ==
  /\ pc[c] = "ins_put"
  /\ LET m == msg[c]
         h == m.hash_duplicidade
         item == [ud_hash_contrato |-> h,
                  tx_nu_contrato |-> m.payload.contrato.nuContratoCedente,
                  tx_nome_cedente |-> m.cedente,
                  tx_nome_cessionario |-> m.payload.cessionario,
                  dt_data_insercao |-> now,
                  dt_data_atualizacao |-> None]
     IN /\ now' = now + 1
        /\ decided' = [decided EXCEPT ![h] = @ + 1]
        /\ IF attribute_not_exists(inserir_contrato, h)
             THEN /\ inserir_contrato' = PutItem(inserir_contrato, item)
                  /\ resp' = [resp EXCEPT ![c] = 200]
                  /\ pc' = [pc EXCEPT ![c] = AfterResponse(200)]
                  /\ accepted' = [accepted EXCEPT ![h] = @ + 1]
                  /\ removed' = [removed EXCEPT ![h] = IF @ = "yes" THEN "again" ELSE @]
             ELSE \* ConditionalCheckFailedException
                  /\ pc' = [pc EXCEPT ![c] = "ins_rej"]
                  /\ UNCHANGED <<inserir_contrato, resp, accepted, removed>>
  /\ UNCHANGED <<recusa_contrato, detentor_contrato, historico_contrato,
                 roteador_contrato, connections, queue, msg, seen, reply, uuid, sent, appended>>

\* insert_rejected_contract with cedente and cessionario exchanged
rejected_item_swapped(nuContratoCedente, cessionario, duplicity_hash, cedente) ==
  [id |-> uuid,
   ud_hash_contrato |-> duplicity_hash,
   tx_nu_contrato |-> nuContratoCedente,
   tx_nome_cedente |-> cessionario,
   en_motivo_recusa |-> 1,
   tx_nome_cessionario |-> cedente,
   dt_data_recusa |-> now]

\* the item insert_rejected_contract puts into recusa_contrato
rejected_item(nuContratoCedente, cessionario, duplicity_hash, cedente) ==
  [id |-> uuid,
   ud_hash_contrato |-> duplicity_hash,
   tx_nu_contrato |-> nuContratoCedente,
   tx_nome_cedente |-> cedente,
   en_motivo_recusa |-> 1,
   tx_nome_cessionario |-> cessionario,
   dt_data_recusa |-> now]

\* insert_rejected_contract, then insert_contract_dynamo returns 409
insert_rejected_contract(c) ==
  /\ pc[c] = "ins_rej"
  /\ LET m == msg[c]
     IN recusa_contrato' =
          PutItemById(recusa_contrato,
                      rejected_item(m.payload.contrato.nuContratoCedente,
                                    m.payload.cessionario, m.hash_duplicidade,
                                    m.cedente))
  /\ uuid' = uuid + 1
  /\ now' = now + 1
  /\ resp' = [resp EXCEPT ![c] = 409]
  /\ pc' = [pc EXCEPT ![c] = AfterResponse(409)]
  /\ UNCHANGED <<inserir_contrato, detentor_contrato, historico_contrato,
                 roteador_contrato, connections, queue, msg, seen, reply, sent, ghost>>

\* ------------------------------------------------------------------ router
\* send_to_queue publishing under the destination name itself
send_to_queue_unresolved(payload) ==
  [routing_key |-> Str(payload.destiny), body |-> payload]

\* Router.send_to_queue(message_to_route): the message as published
send_to_queue(payload) ==
  [routing_key |-> define_routing_key(Str(payload.destiny)), body |-> payload]

\* process_response_and_route, status 200: Router(), send_to_queue and
\* close_connection in a row
Route(p) ==
  /\ pc[p] = "route"
  /\ LET payload == msg[p].payload
         message_to_route == [destiny |-> payload.cessionario, content |-> payload]
     IN roteador_contrato' = Append(roteador_contrato, send_to_queue(message_to_route))
  /\ pc' = [pc EXCEPT ![p] = "hist"]
  /\ UNCHANGED <<tables, connections, queue, msg, resp, seen, reply, now, uuid, sent,
                 ghost>>

\* Router() raises in pika.BlockingConnection(parameters), before there is a
\* connection: nothing catches it in the callback, so the consumer thread
\* ends; the API middleware answers 500
RouteFail(p) ==
  /\ pc[p] = "route"
  /\ IF p \in Consumers
       THEN /\ pc' = [pc EXCEPT ![p] = "dead"]
            /\ UNCHANGED reply
       ELSE /\ pc' = [pc EXCEPT ![p] = "done"]
            /\ reply' = [reply EXCEPT ![p] = 500]
  /\ UNCHANGED <<tables, roteador_contrato, connections, queue, msg, resp, seen, now, uuid,
                 sent, ghost>>

\* the connection is open and exchange_declare or basic_publish raises: the
\* exception leaves process_response_and_route before router.close_connection()
\* and nothing else closes the connection
PublishFail(p) ==
  /\ pc[p] = "route"
  /\ connections' = [connections EXCEPT ![p] = @ + 1]
  /\ IF p \in Consumers
       THEN /\ pc' = [pc EXCEPT ![p] = "dead"]
            /\ UNCHANGED reply
       ELSE /\ pc' = [pc EXCEPT ![p] = "done"]
            /\ reply' = [reply EXCEPT ![p] = 500]
  /\ UNCHANGED <<tables, roteador_contrato, queue, msg, resp, seen, now, uuid, sent,
                 ghost>>

\* ----------------------------------------------------------------- history
\* insert_history_dynamo with one id for every item instead of uuid4()
HistoryItem_fixed_id(nuContratoCedente, cessionario, duplicity_hash, type_history, cedente) ==
  [id |-> 0,
   ud_hash_contrato |-> duplicity_hash,
   tx_nu_contrato |-> nuContratoCedente,
   dt_data_historico |-> now,
   en_acao |-> type_history,
   tx_nome_cedente |-> cedente,
   tx_nome_cessionario |-> cessionario]

\* the item insert_history_dynamo puts
HistoryItem(nuContratoCedente, cessionario, duplicity_hash, type_history, cedente) ==
  [id |-> uuid,
   ud_hash_contrato |-> duplicity_hash,
   tx_nu_contrato |-> nuContratoCedente,
   dt_data_historico |-> now,
   en_acao |-> type_history,
   tx_nome_cedente |-> cedente,
   tx_nome_cessionario |-> cessionario]

insert_history_dynamo(item) ==
  /\ historico_contrato' = PutItemById(historico_contrato, item)
  /\ uuid' = uuid + 1
  /\ now' = now + 1

\* process_response_and_route: operation_type after a 200, operation_type + 1
\* after anything else
HistoryCode(m, status) ==
  IF status = 200 THEN OperationType(m) ELSE OperationType(m) + 1

\* the history entry of process_response_and_route
InsertHistory(p) ==
  /\ pc[p] = "hist"
  /\ LET m == msg[p]
     IN insert_history_dynamo(
          HistoryItem(m.payload.contrato.nuContratoCedente, m.payload.cessionario,
                      m.hash_duplicidade, HistoryCode(m, resp[p]), m.cedente))
  /\ IF p \in Consumers
       THEN /\ Finish(p, 0)
            /\ appended' = [appended EXCEPT ![p] = 0]
       ELSE /\ pc' = [pc EXCEPT ![p] = "hist_offer"]
            /\ appended' = [appended EXCEPT ![p] = @ + 1]
            /\ UNCHANGED <<msg, resp, seen, reply>>
  /\ UNCHANGED <<inserir_contrato, recusa_contrato, detentor_contrato,
                 roteador_contrato, connections, queue, sent, dedup_ghost>>

\* utils.offered_contract.handle_offered_operation: the entry with code 6
\* that follows process_response_and_route
InsertHistoryOffer(w) ==
  /\ pc[w] = "hist_offer"
  /\ LET m == msg[w]
     IN insert_history_dynamo(
          HistoryItem(m.payload.contrato.nuContratoCedente, m.payload.cessionario,
                      m.hash_duplicidade, 6, m.cedente))
  /\ Finish(w, resp[w])
  /\ appended' = [appended EXCEPT ![w] = @ + 1]
  /\ UNCHANGED <<inserir_contrato, recusa_contrato, detentor_contrato,
                 roteador_contrato, connections, queue, sent, dedup_ghost>>

\* ------------------------------------------------------------------ offers
\* the arguments each caller binds to offered_contract_dynamo(duplicity_hash,
\* cedente, nu_contrato, cessionario=None): the consumer passes three
\* positional arguments, the API passes four
OfferArgs(p) ==
  IF p \in Consumers
    THEN [duplicity_hash |-> msg[p].hash_duplicidade,
          cedente |-> msg[p].cedente,
          nu_contrato |-> msg[p].payload.cessionario,
          cessionario |-> None]
    ELSE [duplicity_hash |-> msg[p].hash_duplicidade,
          cedente |-> msg[p].cedente,
          nu_contrato |-> msg[p].payload.contrato.nuContratoCedente,
          cessionario |-> msg[p].cessionario]

\* offered_contract_dynamo without the comparison of the holder
HolderMatches_unchecked(item, cedente) == TRUE

\* current_holder == str(cedente).lower()
HolderMatches(item, cedente) == Lower(Str(item.tx_detentor)) = Lower(Str(cedente))

\* the offer is answered without a transfer: the consumer goes on to
\* process_response_and_route, the API returns the response
OfferRefused(p, status) ==
  /\ resp' = [resp EXCEPT ![p] = status]
  /\ IF p \in Consumers
       THEN /\ pc' = [pc EXCEPT ![p] = AfterResponse(status)]
            /\ UNCHANGED <<msg, seen, reply>>
       ELSE /\ pc' = [pc EXCEPT ![p] = "done"]
            /\ reply' = [reply EXCEPT ![p] = status]
            /\ UNCHANGED <<msg, seen>>

\* offered_contract_dynamo without the test `if 'Item' in response`
OfferOutcome_item_unchecked(response, cedente) ==
  IF \A item \in response : HolderMatches(item, cedente) THEN 200 ELSE 409

\* offered_contract_dynamo, the status its branches lead to: 400 when
\* get_item found no item, 200 when the holder is the cedente, 409 otherwise
OfferOutcome(response, cedente) ==
  IF response = {}
    THEN 400
    ELSE IF \E item \in response : HolderMatches(item, cedente) THEN 200 ELSE 409

\* offered_contract_dynamo: get_item and the comparison with the holder
OfferedGet(p) ==
  /\ pc[p] = "off_get"
  /\ LET a == OfferArgs(p)
         response == GetItem(detentor_contrato, a.duplicity_hash)
         outcome == OfferOutcome(response, a.cedente)
     IN IF outcome = 200
          THEN /\ seen' = [seen EXCEPT ![p] = response]
               /\ pc' = [pc EXCEPT ![p] = "off_upd"]
               /\ UNCHANGED <<msg, resp, reply>>
          ELSE OfferRefused(p, outcome)
  /\ UNCHANGED <<tables, roteador_contrato, connections, queue, now, uuid, sent, ghost>>

\* Table.update_item(Key, SET tx_detentor = :val1, dt_data_atualizacao = :val2):
\* no condition; creates the item when the key is absent
UpdateItem(table, h, holder, ts) ==
  IF GetItem(table, h) = {}
    THEN table \cup {[ud_hash_contrato |-> h, tx_detentor |-> holder,
                      dt_data_atualizacao |-> ts]}
    ELSE {IF i.ud_hash_contrato = h
            THEN [i EXCEPT !.tx_detentor = holder, !.dt_data_atualizacao = ts]
            ELSE i : i \in table}

\* offered_contract_dynamo: update_contract_holder, then the 200 response.
\* The API path then reads payload['criado_por'] (KeyError when absent) and
\* stores it as payload['cedente'].
update_contract_holder(p) ==
  /\ pc[p] = "off_upd"
  /\ LET a == OfferArgs(p)
     IN detentor_contrato' =
          UpdateItem(detentor_contrato, a.duplicity_hash, a.cessionario, now)
  /\ now' = now + 1
  /\ resp' = [resp EXCEPT ![p] = 200]
  /\ IF p \in Consumers
       THEN /\ pc' = [pc EXCEPT ![p] = AfterResponse(200)]
            /\ UNCHANGED <<msg, reply>>
       ELSE IF "criado_por" \in DOMAIN msg[p].payload
              THEN /\ pc' = [pc EXCEPT ![p] = AfterResponse(200)]
                   /\ msg' = [msg EXCEPT ![p].payload =
                                [k \in DOMAIN @ \cup {"cedente"} |->
                                   IF k = "cedente" THEN @.criado_por ELSE @[k]]]
                   /\ UNCHANGED reply
              ELSE /\ pc' = [pc EXCEPT ![p] = "done"]
                   /\ reply' = [reply EXCEPT ![p] = 500]
                   /\ UNCHANGED msg
  /\ UNCHANGED <<inserir_contrato, recusa_contrato, historico_contrato,
                 roteador_contrato, connections, queue, seen, uuid, sent, ghost>>

\* POST /ofertar_contrato -> utils.offered_contract.handle_offered_operation
OfferRequest(w, numbers) ==
  /\ pc[w] = "idle"
  /\ \E nu \in numbers, ccb \in OfferCCBs, cedente \in Requesters,
        cessionario \in NewHolders, owner \in {"user", None} :
       LET base == [contrato |-> [nuContratoCedente |-> nu, nuContratoCCB |-> ccb],
                    cedente |-> cedente,
                    cessionario |-> cessionario]
           payload == IF owner = None
                        THEN base
                        ELSE [k \in DOMAIN base \cup {"criado_por"} |->
                                IF k = "criado_por" THEN owner ELSE base[k]]
       IN /\ msg' = [msg EXCEPT ![w] =
                       [type |-> "api_offer",
                        hash_duplicidade |-> make_duplicity_hash(nu, ccb),
                        cedente |-> cedente,
                        cessionario |-> cessionario,
                        payload |-> payload]]
          /\ IF verify_routing_key(Str(cessionario))
               THEN /\ pc' = [pc EXCEPT ![w] = "off_get"]
                    /\ UNCHANGED reply
               ELSE /\ pc' = [pc EXCEPT ![w] = "done"]
                    /\ reply' = [reply EXCEPT ![w] = 400]
  /\ UNCHANGED <<tables, roteador_contrato, connections, queue, resp, seen, now, uuid, sent, ghost>>

offered_contract(w) == OfferRequest(w, ContractNumbers)

\* the same request with the contract number as the client may write it
offered_contract_number(w) == OfferRequest(w, NumberValues)

\* ------------------------------------------------------------- eligibility
\* validate_eligibility, statusElegibilidade true: insert_contract_holder
insert_contract_holder(c) ==
  /\ pc[c] = "el_put"
  /\ LET m == msg[c]
         item == [ud_hash_contrato |-> HashOf(m),
                  dt_data_atualizacao |-> now,
                  tx_detentor |-> m.cessionario,
                  tx_nu_contrato |-> m.nuContratoFacta]
     IN detentor_contrato' = PutItem(detentor_contrato, item)
  /\ now' = now + 1
  /\ pc' = [pc EXCEPT ![c] = "el_hist"]
  /\ UNCHANGED <<inserir_contrato, recusa_contrato, historico_contrato,
                 roteador_contrato, connections, queue, msg, resp, seen, reply, uuid, sent, ghost>>

\* delete_item with ConditionExpression='attribute_exists(ud_hash_contrato)'
delete_condition_exists(table, h) == GetItem(table, h) # {}

\* Table.delete_item(Key=primary_key) is called with the key alone: no
\* ConditionExpression, so nothing for the store to refuse
delete_condition(table, h) == TRUE

\* validate_eligibility, statusElegibilidade false: delete_item. A refused
\* delete would raise into the except clause of validate_eligibility, which
\* logs it and returns before the history entry.
delete_item(c) ==
  /\ pc[c] = "el_del"
  /\ LET h == HashOf(msg[c])
     IN IF delete_condition(inserir_contrato, h)
          THEN /\ inserir_contrato' = DeleteItem(inserir_contrato, h)
               /\ accepted' = [accepted EXCEPT ![h] = 0]
               /\ decided' = [decided EXCEPT ![h] = 0]
               /\ removed' = [removed EXCEPT ![h] = IF accepted[h] > 0 THEN "yes" ELSE @]
               /\ pc' = [pc EXCEPT ![c] = "el_hist"]
               /\ UNCHANGED <<msg, resp, seen, reply>>
          ELSE /\ Finish(c, 0)
               /\ UNCHANGED <<inserir_contrato, dedup_ghost>>
  /\ UNCHANGED <<recusa_contrato, detentor_contrato, historico_contrato,
                 roteador_contrato, connections, queue, now, uuid, sent, appended>>

\* validate_eligibility: the history entry, type_history 1 or 3
EligibilityHistory(c) ==
  /\ pc[c] = "el_hist"
  /\ LET m == msg[c]
     IN insert_history_dynamo(
          HistoryItem(m.nuContratoFacta, m.cessionario, HashOf(m),
                      IF m.statusElegibilidade THEN 1 ELSE 3, None))
  /\ Finish(c, 0)
  /\ appended' = [appended EXCEPT ![c] = 0]
  /\ UNCHANGED <<inserir_contrato, recusa_contrato, detentor_contrato,
                 roteador_contrato, connections, queue, sent, dedup_ghost>>

\* ------------------------------------------------------------- attachments
\* DynamoDBClient.get_history: query on the index of ud_hash_contrato
get_history(h) == GetItem(historico_contrato, h)

\* POST /inserir-anexo-contrato -> insert_contract_attachments: 404 when the
\* hash has no history; otherwise RabbitMQProducer('inserir_anexo') is called
\* with an argument its __init__(self) does not take, the TypeError reaches
\* the middleware and the request is answered 500 with nothing published
insert_contract_attachments(w) ==
  /\ pc[w] = "idle"
  /\ \E nu \in ContractNumbers, ccb \in CCBs :
       LET duplicity_hash == make_duplicity_hash(nu, ccb)
       IN /\ msg' = [msg EXCEPT ![w] =
                       [type |-> "attachment", hash_duplicidade |-> duplicity_hash]]
          /\ reply' = [reply EXCEPT ![w] =
                         IF get_history(duplicity_hash) = {} THEN 404 ELSE 500]
  /\ pc' = [pc EXCEPT ![w] = "done"]
  /\ UNCHANGED <<tables, roteador_contrato, connections, queue, resp, seen, now, uuid, sent, ghost>>

\* ---------------------------------------------------------- store failures
\* errors a table call raises without having written: throttling, a 5xx of
\* the service, no connection
StoreErrors == {"ProvisionedThroughputExceededException", "EndpointConnectionError"}

\* insert_contract_dynamo with `except Exception` around the conditional put
insert_catches_any(exception) == TRUE

\* insert_contract_dynamo: the one except clause of the conditional put
insert_catches(exception) == exception = "ConditionalCheckFailedException"

\* the conditional put raises a store error: the except clause does not match,
\* the exception leaves insert_contract_dynamo, handle_insert_operation and
\* message_callback, and the consumer thread ends
insert_contract_dynamo_error(c) ==
  /\ pc[c] = "ins_put"
  /\ \E exception \in StoreErrors :
       pc' = [pc EXCEPT ![c] = IF insert_catches(exception) THEN "ins_rej" ELSE "dead"]
  /\ now' = now + 1
  /\ UNCHANGED <<tables, roteador_contrato, connections, queue, msg, resp, seen, reply, uuid,
                 sent, ghost>>

\* insert_rejected_contract: put_item raises, the except clause logs and
\* re-raises, and the exception leaves message_callback
insert_rejected_contract_error(c) ==
  /\ pc[c] = "ins_rej"
  /\ uuid' = uuid + 1
  /\ now' = now + 1
  /\ pc' = [pc EXCEPT ![c] = "dead"]
  /\ UNCHANGED <<tables, roteador_contrato, connections, queue, msg, resp, seen, reply, sent,
                 ghost>>

\* insert_history_dynamo: put_item raises, the except clause answers 409 and
\* the caller goes on without looking at it
insert_history_dynamo_error(c) ==
  /\ pc[c] \in {"hist", "el_hist"}
  /\ uuid' = uuid + 1
  /\ now' = now + 1
  /\ Finish(c, 0)
  /\ UNCHANGED <<tables, roteador_contrato, connections, queue, sent, ghost>>

\* insert_contract_holder: put_item raises, the except clause answers 409 and
\* validate_eligibility goes on to the history entry
insert_contract_holder_error(c) ==
  /\ pc[c] = "el_put"
  /\ now' = now + 1
  /\ pc' = [pc EXCEPT ![c] = "el_hist"]
  /\ UNCHANGED <<tables, roteador_contrato, connections, queue, msg, resp, seen, reply, uuid,
                 sent, ghost>>

\* delete_item raises: the except clause of validate_eligibility logs it and
\* the callback returns without a history entry
delete_item_error(c) ==
  /\ pc[c] = "el_del"
  /\ Finish(c, 0)
  /\ UNCHANGED <<tables, roteador_contrato, connections, queue, now, uuid, sent, ghost>>

\* offered_contract_dynamo: get_item raises, `except Exception` answers 500
OfferedGet_error(p) ==
  /\ pc[p] = "off_get"
  /\ OfferRefused(p, 500)
  /\ UNCHANGED <<tables, roteador_contrato, connections, queue, now, uuid, sent, ghost>>

\* offered_contract_dynamo: update_item raises inside update_contract_holder,
\* no item is written and `except Exception` answers 500
update_contract_holder_error(p) ==
  /\ pc[p] = "off_upd"
  /\ now' = now + 1
  /\ OfferRefused(p, 500)
  /\ UNCHANGED <<tables, roteador_contrato, connections, queue, uuid, sent, ghost>>

\* ---------------------------------------------------------------- producer
\* RabbitMQProducer.setup_connection: everything went well; or
\* pika.BlockingConnection raised, so that self.connection was never
\* assigned; or connection.channel() or exchange_declare raised after the
\* connection was made. The except clause sets self.channel = None in both
\* failures.
SetupOutcomes == {"established", "no_connection", "no_channel"}

\* POST /enviar_contrato as a request of its own: generate_hash, the message
\* and RabbitMQProducer()
send_contract_request(w) ==
  /\ pc[w] = "idle"
  /\ \E nu \in ContractNumbers, ccb \in CCBs, cessionario \in Assignees,
        outcome \in SetupOutcomes :
       /\ msg' = [msg EXCEPT ![w] =
                    [type |-> "insert",
                     hash_duplicidade |-> make_duplicity_hash(int(nu), ccb),
                     cedente |-> "facta",
                     payload |-> Payload(Str(int(nu)), ccb, cessionario)]]
       /\ connections' = [connections EXCEPT ![w] =
                            IF outcome = "no_connection" THEN @ ELSE @ + 1]
       /\ pc' = [pc EXCEPT ![w] =
                   IF outcome = "established" THEN "prod_send" ELSE "prod_none"]
  /\ UNCHANGED <<tables, roteador_contrato, queue, resp, seen, reply, now, uuid, sent, ghost>>

\* send_message, close_connection and the response of send_contract.
\* send_message returns without publishing when self.channel is None;
\* close_connection reads self.connection, which raises AttributeError when
\* it was never assigned, and the request is then answered 500
send_message(w) ==
  /\ pc[w] \in {"prod_send", "prod_none"}
  /\ IF pc[w] = "prod_none"
       THEN UNCHANGED <<queue, sent>>
       ELSE /\ queue' = [queue EXCEPT ![duplicate_contract_queue] = Append(@, msg[w])]
            /\ sent' = sent + 1
  /\ IF connections[w] > 0
       THEN /\ connections' = [connections EXCEPT ![w] = @ - 1]
            /\ reply' = [reply EXCEPT ![w] = 200]
       ELSE /\ reply' = [reply EXCEPT ![w] = 500]
            /\ UNCHANGED connections
  /\ pc' = [pc EXCEPT ![w] = "done"]
  /\ UNCHANGED <<tables, roteador_contrato, msg, resp, seen, now, uuid, ghost>>

\* basic_publish raises: the exception leaves send_contract before
\* close_connection and the request is answered 500
send_message_error(w) ==
  /\ pc[w] = "prod_send"
  /\ pc' = [pc EXCEPT ![w] = "done"]
  /\ reply' = [reply EXCEPT ![w] = 500]
  /\ UNCHANGED <<tables, roteador_contrato, connections, queue, msg, resp, seen, now, uuid,
                 sent, ghost>>

\* ----------------------------------------------------------------- startup
\* RabbitMQConsumer() has run in every consumer thread: setup_connection
\* left a channel ("created") or, after an exception, channel = None
\* ("no_channel"); start_consuming has not been called yet
InitStartup ==
  /\ pc \in [Procs -> {"idle", "created", "no_channel"}]
  /\ \A c \in Consumers : pc[c] \in {"created", "no_channel"}
  /\ \A w \in Workers : pc[w] = "idle"
  /\ inserir_contrato = {}
  /\ recusa_contrato = {}
  /\ detentor_contrato = {}
  /\ historico_contrato = {}
  /\ roteador_contrato = <<>>
  /\ connections = [p \in Procs |-> 0]
  /\ queue = [q \in QueueNames |-> <<>>]
  /\ msg = [p \in Procs |-> NoMsg]
  /\ resp = [p \in Procs |-> 0]
  /\ seen = [p \in Procs |-> {}]
  /\ reply = [w \in Workers |-> 0]
  /\ now = 0
  /\ uuid = 0
  /\ sent = 0
  /\ accepted = [h \in Hashes |-> 0]
  /\ decided = [h \in Hashes |-> 0]
  /\ removed = [h \in Hashes |-> "no"]
  /\ appended = [p \in Procs |-> 0]

\* RabbitMQConsumer.start_consuming: queue_declare and basic_consume are
\* called on self.channel for both queues before the test
\* `if self.channel is None`. With a channel the callbacks are registered and
\* the loop waits for deliveries; with channel = None the first
\* self.channel.queue_declare raises AttributeError and the thread ends
start_consuming(c) ==
  /\ pc[c] \in {"created", "no_channel"}
  /\ pc' = [pc EXCEPT ![c] = IF pc[c] = "created" THEN "idle" ELSE "dead"]
  /\ UNCHANGED <<tables, roteador_contrato, connections, queue, msg, resp, seen, reply, now,
                 uuid, sent, ghost>>

\* ------------------------------------------------------------ specification
Next ==
  \/ send_contract
  \/ publish_eligibility
  \/ publish_offered
  \/ \E c \in Consumers, q \in QueueNames : Deliver(c, q)
  \/ \E c \in Consumers : insert_contract_dynamo(c)
  \/ \E c \in Consumers : insert_rejected_contract(c)
  \/ \E c \in Consumers : insert_contract_holder(c)
  \/ \E c \in Consumers : delete_item(c)
  \/ \E c \in Consumers : EligibilityHistory(c)
  \/ \E w \in Workers : offered_contract(w)
  \/ \E p \in Procs : OfferedGet(p)
  \/ \E p \in Procs : update_contract_holder(p)
  \/ \E p \in Procs : Route(p)
  \/ \E p \in Procs : RouteFail(p)
  \/ \E p \in Procs : InsertHistory(p)
  \/ \E w \in Workers : InsertHistoryOffer(w)
  \/ \E w \in Workers : insert_contract_attachments(w)
  \/ publish_malformed
  \/ \E c \in Consumers, q \in QueueNames : DeliverMalformed(c, q)
  \/ \E c \in Consumers : insert_contract_dynamo_error(c)
  \/ \E c \in Consumers : insert_rejected_contract_error(c)
  \/ \E c \in Consumers : insert_contract_holder_error(c)
  \/ \E c \in Consumers : delete_item_error(c)
  \/ \E c \in Consumers : insert_history_dynamo_error(c)
  \/ \E p \in Procs : PublishFail(p)
  \/ \E p \in Procs : OfferedGet_error(p)
  \/ \E p \in Procs : update_contract_holder_error(p)
  \/ send_contract_parcela
  \/ \E c \in Consumers : start_consuming(c)
  \/ \E w \in Workers : send_contract_request(w)
  \/ \E w \in Workers : send_message(w)
  \/ \E w \in Workers : send_message_error(w)
  \/ send_contract_number
  \/ publish_eligibility_number
  \/ \E w \in Workers : offered_contract_number(w)

Spec == Init /\ [][Next]_vars

\* the insert and eligibility pipeline alone: two consumers, no offers
NextDedup ==
  \/ send_contract
  \/ publish_eligibility
  \/ \E c \in Consumers, q \in QueueNames : Deliver(c, q)
  \/ \E c \in Consumers : insert_contract_dynamo(c)
  \/ \E c \in Consumers : insert_rejected_contract(c)
  \/ \E c \in Consumers : insert_contract_holder(c)
  \/ \E c \in Consumers : delete_item(c)
  \/ \E c \in Consumers : EligibilityHistory(c)
  \/ \E c \in Consumers : Route(c)
  \/ \E c \in Consumers : RouteFail(c)
  \/ \E c \in Consumers : InsertHistory(c)

SpecDedup == Init /\ [][NextDedup]_vars

\* ownership alone: eligibility verdicts and offers, one consumer and the
\* API workers
OfferProcs == {"c1"} \cup Workers

NextOffer ==
  \/ sent < MaxOfferSends /\ publish_eligibility
  \/ sent < MaxOfferSends /\ publish_offered
  \/ \E q \in QueueNames : Deliver("c1", q)
  \/ insert_contract_holder("c1")
  \/ delete_item("c1")
  \/ EligibilityHistory("c1")
  \/ \E w \in Workers : offered_contract(w)
  \/ \E p \in OfferProcs : OfferedGet(p)
  \/ \E p \in OfferProcs : update_contract_holder(p)
  \/ \E p \in OfferProcs : Route(p)
  \/ \E p \in OfferProcs : RouteFail(p)
  \/ \E p \in OfferProcs : InsertHistory(p)
  \/ \E w \in Workers : InsertHistoryOffer(w)

SpecOffer == Init /\ [][NextOffer]_vars

\* the insert and eligibility pipeline over tables that may fail any call
NextStore ==
  \/ sent < MaxOfferSends /\ send_contract
  \/ sent < MaxOfferSends /\ publish_eligibility
  \/ \E c \in Consumers, q \in QueueNames : Deliver(c, q)
  \/ \E c \in Consumers : insert_contract_dynamo(c)
  \/ \E c \in Consumers : insert_contract_dynamo_error(c)
  \/ \E c \in Consumers : insert_rejected_contract(c)
  \/ \E c \in Consumers : insert_rejected_contract_error(c)
  \/ \E c \in Consumers : insert_contract_holder(c)
  \/ \E c \in Consumers : insert_contract_holder_error(c)
  \/ \E c \in Consumers : delete_item(c)
  \/ \E c \in Consumers : delete_item_error(c)
  \/ \E c \in Consumers : EligibilityHistory(c)
  \/ \E c \in Consumers : Route(c)
  \/ \E c \in Consumers : RouteFail(c)
  \/ \E c \in Consumers : InsertHistory(c)
  \/ \E c \in Consumers : insert_history_dynamo_error(c)

SpecStore == Init /\ [][NextStore]_vars

\* the insert and eligibility pipeline fed with malformed bodies as well
NextMalformed ==
  \/ sent < MaxOfferSends /\ send_contract
  \/ sent < MaxOfferSends /\ publish_eligibility
  \/ sent < MaxOfferSends /\ publish_malformed
  \/ \E c \in Consumers, q \in QueueNames : Deliver(c, q)
  \/ \E c \in Consumers, q \in QueueNames : DeliverMalformed(c, q)
  \/ \E c \in Consumers : insert_contract_dynamo(c)
  \/ \E c \in Consumers : insert_rejected_contract(c)
  \/ \E c \in Consumers : insert_contract_holder(c)
  \/ \E c \in Consumers : delete_item(c)
  \/ \E c \in Consumers : EligibilityHistory(c)
  \/ \E c \in Consumers : Route(c)
  \/ \E c \in Consumers : RouteFail(c)
  \/ \E c \in Consumers : InsertHistory(c)

SpecMalformed == Init /\ [][NextMalformed]_vars

\* every operation that reaches the history table: inserts, verdicts, offers
\* of both paths and attachment requests; one consumer, one API worker for
\* offers and one for attachment requests
HistoryProcs == {"c1", "w1"}

NextHistory ==
  \/ sent < MaxOfferSends /\ send_contract
  \/ sent < MaxOfferSends /\ publish_eligibility
  \/ sent < MaxOfferSends /\ publish_offered
  \/ \E q \in QueueNames : Deliver("c1", q)
  \/ insert_contract_dynamo("c1")
  \/ insert_rejected_contract("c1")
  \/ insert_contract_holder("c1")
  \/ delete_item("c1")
  \/ EligibilityHistory("c1")
  \/ offered_contract("w1")
  \/ insert_contract_attachments("w2")
  \/ \E p \in HistoryProcs : OfferedGet(p)
  \/ \E p \in HistoryProcs : update_contract_holder(p)
  \/ \E p \in HistoryProcs : Route(p)
  \/ \E p \in HistoryProcs : RouteFail(p)
  \/ \E p \in HistoryProcs : InsertHistory(p)
  \/ InsertHistoryOffer("w1")

SpecHistory == Init /\ [][NextHistory]_vars

\* the insert and eligibility pipeline over a broker that may fail the router
\* before or after its connection is open
NextRouter ==
  \/ sent < MaxOfferSends /\ send_contract
  \/ sent < MaxOfferSends /\ publish_eligibility
  \/ \E c \in Consumers, q \in QueueNames : Deliver(c, q)
  \/ \E c \in Consumers : insert_contract_dynamo(c)
  \/ \E c \in Consumers : insert_rejected_contract(c)
  \/ \E c \in Consumers : insert_contract_holder(c)
  \/ \E c \in Consumers : delete_item(c)
  \/ \E c \in Consumers : EligibilityHistory(c)
  \/ \E c \in Consumers : Route(c)
  \/ \E c \in Consumers : RouteFail(c)
  \/ \E c \in Consumers : PublishFail(c)
  \/ \E c \in Consumers : InsertHistory(c)

SpecRouter == Init /\ [][NextRouter]_vars

\* offers of both paths over an ownership store that may fail on the read of
\* the holder or on the update
OfferStoreProcs == {"c1", "w1"}

NextOfferStore ==
  \/ sent < MaxOfferSends /\ publish_eligibility
  \/ sent < MaxOfferSends /\ publish_offered
  \/ \E q \in QueueNames : Deliver("c1", q)
  \/ insert_contract_holder("c1")
  \/ delete_item("c1")
  \/ EligibilityHistory("c1")
  \/ offered_contract("w1")
  \/ \E p \in OfferStoreProcs : OfferedGet(p)
  \/ \E p \in OfferStoreProcs : OfferedGet_error(p)
  \/ \E p \in OfferStoreProcs : update_contract_holder(p)
  \/ \E p \in OfferStoreProcs : update_contract_holder_error(p)
  \/ \E p \in OfferStoreProcs : Route(p)
  \/ \E p \in OfferStoreProcs : RouteFail(p)
  \/ \E p \in OfferStoreProcs : InsertHistory(p)
  \/ InsertHistoryOffer("w1")

SpecOfferStore == Init /\ [][NextOfferStore]_vars

\* inserts, verdicts and API offers that write the contract number each in
\* its own way
KeyProcs == {"c1", "w1"}

NextKeys ==
  \/ sent < MaxOfferSends /\ send_contract_number
  \/ sent < MaxOfferSends /\ publish_eligibility_number
  \/ \E q \in QueueNames : Deliver("c1", q)
  \/ insert_contract_dynamo("c1")
  \/ insert_rejected_contract("c1")
  \/ insert_contract_holder("c1")
  \/ delete_item("c1")
  \/ EligibilityHistory("c1")
  \/ offered_contract_number("w1")
  \/ OfferedGet("w1")
  \/ update_contract_holder("w1")
  \/ \E p \in KeyProcs : Route(p)
  \/ \E p \in KeyProcs : RouteFail(p)
  \/ \E p \in KeyProcs : InsertHistory(p)
  \/ InsertHistoryOffer("w1")

SpecKeys == Init /\ [][NextKeys]_vars

\* insert requests over a broker that may refuse the producer, and the
\* consumer that handles what was published
NextProducer ==
  \/ \E w \in Workers : send_contract_request(w)
  \/ \E w \in Workers : send_message(w)
  \/ \E w \in Workers : send_message_error(w)
  \/ Deliver("c1", duplicate_contract_queue)
  \/ insert_contract_dynamo("c1")
  \/ insert_rejected_contract("c1")
  \/ Route("c1")
  \/ RouteFail("c1")
  \/ InsertHistory("c1")

SpecProducer == Init /\ [][NextProducer]_vars

\* the consumers are started and then handle inserts and verdicts
NextStartup ==
  \/ \E c \in Consumers : start_consuming(c)
  \/ sent < MaxOfferSends /\ send_contract
  \/ sent < MaxOfferSends /\ publish_eligibility
  \/ \E c \in Consumers, q \in QueueNames : Deliver(c, q)
  \/ \E c \in Consumers : insert_contract_dynamo(c)
  \/ \E c \in Consumers : insert_rejected_contract(c)
  \/ \E c \in Consumers : insert_contract_holder(c)
  \/ \E c \in Consumers : delete_item(c)
  \/ \E c \in Consumers : EligibilityHistory(c)
  \/ \E c \in Consumers : Route(c)
  \/ \E c \in Consumers : RouteFail(c)
  \/ \E c \in Consumers : InsertHistory(c)

SpecStartup == InitStartup /\ [][NextStartup]_vars

\* submissions with their installments, and the consumer that handles them
NextHash ==
  \/ sent < MaxOfferSends /\ send_contract_parcela
  \/ Deliver("c1", duplicate_contract_queue)
  \/ insert_contract_dynamo("c1")
  \/ insert_rejected_contract("c1")
  \/ Route("c1")
  \/ RouteFail("c1")
  \/ InsertHistory("c1")

SpecHash == Init /\ [][NextHash]_vars

\* ------------------------------------------------------------------ claims
IsInsert(m) == ~IsEligibility(m) /\ m.type = "insert"
IsOffer(m) == ~IsEligibility(m) /\ m.type \in {"offered", "api_offer"}

\* the step is taken by process p
Acts(p) == pc'[p] # pc[p]

\* C1: for every duplicity hash, of the inserts decided since the last remove
\* exactly one is answered 200 and every other one 409, however the consumers
\* interleave, and the dedup table never holds two items for one hash.
C1_ExactlyOneAccepted ==
  /\ \A h \in Hashes :
       /\ Cardinality(GetItem(inserir_contrato, h)) <= 1
       /\ accepted[h] <= 1
       /\ decided[h] >= 1 => accepted[h] = 1
  /\ \A c \in Consumers :
       /\ (pc[c] = "route" /\ IsInsert(msg[c])) => resp[c] = 200
       /\ (pc[c] = "hist" /\ IsInsert(msg[c])) => resp[c] \in {200, 409}

\* two consumers handle an insert for the same hash at the same time: one was
\* answered 200 and is about to route, the other was answered 409
C1_Witness ==
  \E c1, c2 \in Consumers :
    /\ c1 # c2
    /\ pc[c1] = "route" /\ IsInsert(msg[c1]) /\ resp[c1] = 200
    /\ pc[c2] = "hist" /\ IsInsert(msg[c2]) /\ resp[c2] = 409
    /\ msg[c1].hash_duplicidade = msg[c2].hash_duplicidade

\* C6: an insert answered 409 has put exactly one item into recusa_contrato,
\* with the hash, contract number, cedente and cessionario of the message and
\* en_motivo_recusa = 1, and has left inserir_contrato as it was.
C6_RejectedCompanion ==
  [][\A c \in Consumers :
       /\ (pc[c] = "ins_put" /\ pc'[c] = "ins_rej") =>
            inserir_contrato' = inserir_contrato
       /\ (pc[c] = "ins_rej" /\ resp'[c] = 409) =>
            /\ inserir_contrato' = inserir_contrato
            /\ recusa_contrato \subseteq recusa_contrato'
            /\ Cardinality(recusa_contrato' \ recusa_contrato) = 1
            /\ \A r \in recusa_contrato' \ recusa_contrato :
                 /\ r.ud_hash_contrato = msg[c].hash_duplicidade
                 /\ r.tx_nu_contrato = msg[c].payload.contrato.nuContratoCedente
                 /\ r.tx_nome_cedente = msg[c].cedente
                 /\ r.tx_nome_cessionario = msg[c].payload.cessionario
                 /\ r.en_motivo_recusa = 1]_vars

\* an insert was answered 409 and its item is in recusa_contrato
C6_Witness ==
  \E c \in Consumers :
    /\ IsInsert(msg[c]) /\ resp[c] = 409
    /\ \E r \in recusa_contrato : r.ud_hash_contrato = msg[c].hash_duplicidade

\* C7: no step of the handling of an insert whose hash already has an item in
\* inserir_contrato publishes to the router exchange or changes
\* inserir_contrato or detentor_contrato.
C7_ReplayedInsert ==
  [][\A c \in Consumers :
       (/\ Acts(c)
        /\ \/ /\ pc[c] = "ins_put"
              /\ ~attribute_not_exists(inserir_contrato, msg[c].hash_duplicidade)
           \/ pc[c] = "ins_rej"
           \/ IsInsert(msg[c]) /\ resp[c] = 409)
       => /\ roteador_contrato' = roteador_contrato
          /\ inserir_contrato' = inserir_contrato
          /\ detentor_contrato' = detentor_contrato]_vars

\* a replayed insert has been handled to its history entry, with nothing
\* published, while the hash has an OwnershipRecord
C7_Witness ==
  \E c \in Consumers :
    /\ pc[c] = "hist" /\ IsInsert(msg[c]) /\ resp[c] = 409
    /\ GetItem(detentor_contrato, msg[c].hash_duplicidade) # {}

\* C8: once an eligibility message with statusElegibilidade false was handled
\* for a hash whose insert had been accepted, inserir_contrato has no item for
\* that hash, and the next insert for that hash is answered 200.
C8_RemovedThenAccepted ==
  /\ [](\A h \in Hashes : removed[h] = "yes" => GetItem(inserir_contrato, h) = {})
  /\ [][\A c \in Consumers :
          (pc[c] = "ins_put" /\ Acts(c) /\ removed[msg[c].hash_duplicidade] = "yes")
          => /\ resp'[c] = 200
             /\ GetItem(inserir_contrato', msg[c].hash_duplicidade) # {}]_vars

\* an insert was accepted for a hash after the removal of its former item
C8_Witness ==
  \E c \in Consumers :
    /\ IsInsert(msg[c]) /\ resp[c] = 200
    /\ removed[msg[c].hash_duplicidade] = "again"

\* C9: an eligibility message with statusElegibilidade true puts an item into
\* detentor_contrato only when inserir_contrato has an item for the hash at
\* that time.
C9_HolderOnlyAfterInsert ==
  [][\A c \in Consumers :
       (pc[c] = "el_put" /\ Acts(c)) =>
         GetItem(inserir_contrato, HashOf(msg[c])) # {}]_vars

\* C10: the consumer, handling an accepted insert whose routing succeeds,
\* publishes one message {destiny: assignee, content: payload} under the
\* assignee's name when it is in the allow-list and under 'precessao' when it
\* is not, and then puts one history item with en_acao = 1 for the hash.
C10_AcceptedInsertRouted ==
  [][\A c \in Consumers :
       /\ (pc[c] = "route" /\ pc'[c] = "hist" /\ IsInsert(msg[c])) =>
            LET payload == msg[c].payload
                assignee == payload.cessionario
            IN roteador_contrato' =
                 Append(roteador_contrato,
                        [routing_key |-> IF assignee \in ROUTING_KEYS
                                           THEN assignee ELSE "precessao",
                         body |-> [destiny |-> assignee, content |-> payload]])
       /\ (pc[c] = "hist" /\ Acts(c) /\ IsInsert(msg[c]) /\ resp[c] = 200) =>
            /\ historico_contrato \subseteq historico_contrato'
            /\ Cardinality(historico_contrato' \ historico_contrato) = 1
            /\ \A e \in historico_contrato' \ historico_contrato :
                 /\ e.en_acao = 1
                 /\ e.ud_hash_contrato = msg[c].hash_duplicidade]_vars

\* an accepted insert for an assignee outside the allow-list was published
\* under the fallback key and has its history item with en_acao = 1
C10_Witness ==
  /\ \E i \in 1..Len(roteador_contrato) :
       /\ roteador_contrato[i].routing_key = "precessao"
       /\ \E e \in historico_contrato :
            /\ e.en_acao = 1
            /\ e.tx_nome_cedente = "facta"
            /\ e.tx_nome_cessionario = roteador_contrato[i].body.destiny
            /\ e.ud_hash_contrato =
                 make_duplicity_hash(
                   roteador_contrato[i].body.content.contrato.nuContratoCedente,
                   roteador_contrato[i].body.content.contrato.nuContratoCCB)

\* the holder recorded for a hash, as a set (empty: no OwnershipRecord)
Holder(table, h) == {i.tx_detentor : i \in GetItem(table, h)}

\* C2: of the offers that raced against the same prior holder (each read the
\* same OwnershipRecord before any of them wrote), two are never both answered
\* 200.
C2_SingleTransfer ==
  \A w1, w2 \in Workers :
    (/\ w1 # w2
     /\ resp[w1] = 200 /\ resp[w2] = 200
     /\ msg[w1].hash_duplicidade = msg[w2].hash_duplicidade)
    => seen[w1] # seen[w2]

\* C3: an offer whose requester differs from the holder, compared without
\* regard to case, is answered 409 (and only such an offer is), and no step
\* of its handling changes detentor_contrato or publishes to the router
\* exchange.
C3_ConflictLeavesRecord ==
  [][\A p \in Procs :
       /\ (pc[p] = "off_get" /\ Acts(p)) =>
            LET a == OfferArgs(p)
                holders == Holder(detentor_contrato, a.duplicity_hash)
                differs == \E x \in holders : Lower(Str(x)) # Lower(Str(a.cedente))
            IN /\ differs <=> resp'[p] = 409
               /\ differs => /\ detentor_contrato' = detentor_contrato
                             /\ roteador_contrato' = roteador_contrato
       /\ (IsOffer(msg[p]) /\ resp[p] = 409 /\ Acts(p)) =>
            /\ detentor_contrato' = detentor_contrato
            /\ roteador_contrato' = roteador_contrato]_vars

\* an offer by a requester who is not the holder was answered 409 while the
\* record names another holder
C3_Witness ==
  \E p \in Procs :
    /\ IsOffer(msg[p]) /\ resp[p] = 409
    /\ \E x \in Holder(detentor_contrato, msg[p].hash_duplicidade) :
         Lower(Str(x)) # Lower(Str(msg[p].cedente))

\* C4: the step that answers an offer with 200 leaves the cessionario of the
\* request as the holder of the record, on the API path and on the consumer
\* path.
C4_HolderIsNewHolder ==
  [][\A p \in Procs :
       (pc[p] = "off_upd" /\ resp'[p] = 200) =>
         Holder(detentor_contrato', msg[p].hash_duplicidade)
           = {msg[p].payload.cessionario}]_vars

\* C5: an OwnershipRecord, once there, stays, and its holder changes only in
\* the step of an offer that is answered 200.
C5_HolderChangesOnlyByOffer ==
  [][\A h \in Hashes :
       Holder(detentor_contrato, h) # {} =>
         /\ Holder(detentor_contrato', h) # {}
         /\ Holder(detentor_contrato', h) # Holder(detentor_contrato, h) =>
              \E p \in Procs : pc[p] = "off_upd" /\ resp'[p] = 200]_vars

\* the step ends the handler process p is running
Completes(p) == pc[p] \notin {"idle", "done", "dead"} /\ pc'[p] \in {"idle", "done"}

\* the history items a step puts
Appended == historico_contrato' \ historico_contrato

\* C11: an offer answered 200 whose routing succeeds is published under the
\* routing key of the new holder, and its handler ends having appended a
\* history item with action code 6 for the hash, on the API path and on the
\* consumer path.
C11_TransferredOfferRouted ==
  [][\A p \in Procs :
       (IsOffer(msg[p]) /\ resp[p] = 200 /\ Acts(p)) =>
         /\ (pc[p] = "route" /\ pc'[p] = "hist") =>
              /\ Len(roteador_contrato') = Len(roteador_contrato) + 1
              /\ roteador_contrato'[Len(roteador_contrato')].routing_key
                   = define_routing_key(Str(msg[p].payload.cessionario))
         /\ (pc[p] \in {"hist", "hist_offer"} /\ Completes(p)) =>
              \E e \in Appended :
                e.ud_hash_contrato = msg[p].hash_duplicidade /\ e.en_acao = 6]_vars

\* C12: when the ledger answered 200 and routing the message then fails, the
\* handler appends a history item for the hash with the happy-path code plus
\* one: 2 for an insert, 7 for an offer.
C12_RoutingFailureRecorded ==
  [][\A p \in Procs :
       (pc[p] = "route" /\ resp[p] = 200 /\ Acts(p) /\ pc'[p] # "hist") =>
         \E e \in Appended :
           /\ e.ud_hash_contrato = msg[p].hash_duplicidade
           /\ e.en_acao = IF IsInsert(msg[p]) THEN 2 ELSE 7]_vars

\* C13: the handler of a lifecycle transition (an insert answered 200, an
\* eligibility verdict, an offer answered 200) that runs to its end has
\* appended exactly one history item, never zero and never two.
C13_OneEntryPerTransition ==
  [][\A p \in Procs :
       ( /\ Completes(p)
         /\ \/ IsEligibility(msg[p])
            \/ resp[p] = 200 /\ pc[p] \in {"hist", "hist_offer"} ) =>
         appended[p] + Cardinality(Appended) = 1]_vars

\* C14: the history log is append-only: a step of any operation keeps every
\* item of historico_contrato as it is, and every item it adds has an id no
\* item had before.
C14_HistoryAppendOnly ==
  [][/\ historico_contrato \subseteq historico_contrato'
     /\ \A e \in Appended : \A old \in historico_contrato : old.id # e.id]_vars

\* inserts, a verdict and an offer have each appended to the log and an
\* attachment request has read it
C14_Witness ==
  /\ \E a, b, c \in historico_contrato :
       /\ a.tx_nome_cedente = "facta"
       /\ b.tx_nome_cedente = None
       /\ c.en_acao = 6
  /\ \E w \in Workers : msg[w].type = "attachment" /\ reply[w] = 500

\* the destination names the operations of the model hand to the resolver,
\* the printed None and the fallback key itself
Destinations ==
  Assignees \cup NewHolders \cup Requesters \cup Approved \cup {Str(None), "precessao"}

\* C15: define_routing_key answers every destination: the destination itself
\* when it is, letter for letter, in ROUTING_KEYS, the key 'precessao'
\* otherwise; verify_routing_key is true exactly for the members of
\* ROUTING_KEYS. Every message the router has published and every offer the
\* API has screened obeys it.
C15_ResolverTotal ==
  /\ \A x \in Destinations :
       /\ define_routing_key(x) = (IF x \in ROUTING_KEYS THEN x ELSE "precessao")
       /\ verify_routing_key(x) <=> x \in ROUTING_KEYS
  /\ \A i \in 1..Len(roteador_contrato) :
       LET m == roteador_contrato[i]
       IN m.routing_key = (IF Str(m.body.destiny) \in ROUTING_KEYS
                             THEN Str(m.body.destiny) ELSE "precessao")
  /\ \A w \in Workers :
       msg[w].type = "api_offer" =>
         ((pc[w] = "done" /\ resp[w] = 0 /\ reply[w] = 400)
            <=> Str(msg[w].cessionario) \notin ROUTING_KEYS)

\* one message went out under its own key, one under the fallback key, and
\* the API refused an offer to an assignee that is not registered
C15_Witness ==
  /\ \E i, j \in 1..Len(roteador_contrato) :
       /\ roteador_contrato[i].routing_key = "precessao"
       /\ roteador_contrato[i].body.destiny = "bankX"
       /\ roteador_contrato[j].routing_key = "bankC"
  /\ \E w \in Workers :
       msg[w].type = "api_offer" /\ msg[w].cessionario = "bankX" /\ reply[w] = 400

\* C16: no step of an offer whose requested assignee is outside ROUTING_KEYS
\* changes the ownership table or publishes a message, and the offer is not
\* answered 200, on the API path and on the consumer path.
C16_UnknownAssigneeRefused ==
  [][\A p \in Procs :
       ( /\ IsOffer(msg[p])
         /\ ~verify_routing_key(Str(msg[p].payload.cessionario))
         /\ Acts(p) ) =>
         /\ detentor_contrato' = detentor_contrato
         /\ roteador_contrato' = roteador_contrato
         /\ resp'[p] # 200]_vars

C18_StoreFailureNotRejected ==
  [][\A c \in Consumers :
       LET record == GetItem(inserir_contrato, msg[c].hash_duplicidade)
       IN /\ (pc[c] = "ins_put" /\ Acts(c)) =>
               /\ pc'[c] = "ins_rej" => record # {}
               /\ (record = {} /\ inserir_contrato' = inserir_contrato) =>
                    /\ pc'[c] = "dead"
                    /\ UNCHANGED <<tables, roteador_contrato>>
          /\ (Acts(c) /\ (resp'[c] = 409 \/ recusa_contrato' # recusa_contrato)) =>
               pc[c] = "ins_rej"
          /\ pc[c] = "dead" => (pc'[c] = "dead" /\ msg'[c] = msg[c])]_vars

\* a conditional put failed with a store error for a hash that has no
\* DuplicityRecord: the consumer stopped there with nothing written
C18_Witness ==
  \E c \in Consumers :
    /\ pc[c] = "dead" /\ IsInsert(msg[c]) /\ resp[c] = 0
    /\ GetItem(inserir_contrato, msg[c].hash_duplicidade) = {}
    /\ recusa_contrato = {} /\ historico_contrato = {} /\ roteador_contrato = <<>>

\* messages the broker has handed to a callback: published and no longer queued
Delivered ==
  sent - (Len(queue[duplicate_contract_queue]) + Len(queue[validate_eligibility_queue]))

\* basic_consume(auto_ack=True): the broker takes a message as acknowledged
\* the moment it delivers it
Acknowledged == Delivered

\* deliveries whose callback has returned: not the ones a consumer is still
\* running, nor the ones whose exception ended the consumer
Handled == Delivered - Cardinality({c \in Consumers : pc[c] # "idle"})

\* C19: the broker holds as acknowledged only messages whose handler has run
\* to its end: none is acknowledged while its handler runs, and one whose
\* handler failed stays unacknowledged.
C19_AckAfterCompletion == Acknowledged <= Handled

\* C20: a malformed body on either consumed queue does not end the consume
\* loop: no consumer has stopped on one, so the messages behind it are
\* still handled.
C20_MalformedSurvived ==
  \A c \in Consumers : ~(pc[c] = "dead" /\ msg[c].type = "malformed")

\* the queue the message came from
QueueOf(m) ==
  IF IsEligibility(m) THEN validate_eligibility_queue ELSE duplicate_contract_queue

\* the consumer is inside a callback, between two of its store or router calls
Handling(c) == pc[c] \notin {"idle", "dead"}

\* C21: while the handler of a message from one queue is between two of its
\* store or router calls, the consumer can take the message waiting on the
\* other queue: a blocked handler does not hold up the other queue.
C21_QueuesIndependent ==
  \A c \in Consumers, q \in QueueNames :
    (Handling(c) /\ QueueOf(msg[c]) # q /\ queue[q] # <<>>) =>
      ENABLED Deliver(c, q)

C23_ConnectionsClosed ==
  \A p \in Procs : pc[p] # "route" => connections[p] = 0

\* C24: the duplicity hash of a pair does not depend on the order in which
\* the caller's dict holds the two fields, every hash a message or a record
\* carries is the one a new call gives for its pair, and two CCB numbers
\* that differ give different hashes for the same contract number.
C24_DuplicityHashFunction ==
  /\ \A a \in ContractNumbers : \A b, c \in CCBs :
       /\ make_duplicity_hash(a, b)
            = make_hash(<< <<"nuContratoCCB", Str(b)>>, <<"nuContratoFacta", Str(a)>> >>)
       /\ b # c => make_duplicity_hash(a, b) # make_duplicity_hash(a, c)
  /\ \A q \in QueueNames : \A i \in 1..Len(queue[q]) :
       LET m == queue[q][i]
       IN IsInsert(m) =>
            m.hash_duplicidade = make_duplicity_hash(m.payload.contrato.nuContratoCedente,
                                                     m.payload.contrato.nuContratoCCB)
  /\ \A c \in Consumers :
       (IsEligibility(msg[c]) /\ pc[c] = "el_hist" /\ msg[c].statusElegibilidade) =>
         \E item \in detentor_contrato :
           item.ud_hash_contrato
             = make_hash(<< <<"nuContratoCCB", Str(msg[c].nuContratoCCB)>>,
                            <<"nuContratoFacta", Str(msg[c].nuContratoFacta)>> >>)

\* two inserts of one contract number with different CCB numbers were both
\* accepted, under two hashes, and a verdict found the record of one of them
C24_Witness ==
  /\ \E x, y \in inserir_contrato :
       x.tx_nu_contrato = y.tx_nu_contrato /\ x.ud_hash_contrato # y.ud_hash_contrato
  /\ \E c \in Consumers :
       /\ IsEligibility(msg[c]) /\ pc[c] = "el_hist" /\ msg[c].statusElegibilidade
       /\ GetItem(inserir_contrato, HashOf(msg[c])) # {}

\* C25: the remove of an eligibility=false message is no error whether or
\* not the dedup table holds the hash: the handler goes on to its history
\* entry, the table has no item for the hash afterwards and keeps every
\* other item, a table without the hash is left as it was, and a second
\* remove would change nothing.
C25_RemoveIdempotent ==
  [][\A c \in Consumers :
       (pc[c] = "el_del" /\ Acts(c)) =>
         LET h == HashOf(msg[c])
         IN /\ pc'[c] = "el_hist"
            /\ GetItem(inserir_contrato', h) = {}
            /\ inserir_contrato' = inserir_contrato \ GetItem(inserir_contrato, h)
            /\ GetItem(inserir_contrato, h) = {} => inserir_contrato' = inserir_contrato
            /\ DeleteItem(inserir_contrato', h) = inserir_contrato']_vars

\* a second eligibility=false message of a hash that never had a
\* DuplicityRecord has been through its remove
C25_Witness ==
  \E c \in Consumers :
    /\ pc[c] = "el_hist" /\ IsEligibility(msg[c]) /\ ~msg[c].statusElegibilidade
    /\ removed[HashOf(msg[c])] = "no" /\ accepted[HashOf(msg[c])] = 0
    /\ \E e \in historico_contrato :
         e.ud_hash_contrato = HashOf(msg[c]) /\ e.en_acao = 3

\* C26: a step of any operation leaves each DuplicityRecord as it is or
\* removes it: contract number, cedente, assignee and insertion timestamp do
\* not change while the record is there, and its update timestamp is empty.
C26_DuplicityRecordImmutable ==
  /\ [][\A item \in inserir_contrato :
          \/ item \in inserir_contrato'
          \/ GetItem(inserir_contrato', item.ud_hash_contrato) = {}]_vars
  /\ [](\A item \in inserir_contrato : item.dt_data_atualizacao = None)

\* an eligibility verdict and an offer answered 200 have come and gone for
\* the hash while the record of its insert is there
C26_Witness ==
  \E item \in inserir_contrato :
    /\ GetItem(detentor_contrato, item.ud_hash_contrato) # {}
    /\ \E p \in Procs :
         /\ IsOffer(msg[p]) /\ resp[p] = 200 /\ pc[p] = "done"
         /\ msg[p].hash_duplicidade = item.ud_hash_contrato

\* C27: when the store fails on the get_item or on the update_item of an offer,
\* the offer is answered 500, the ownership table, the exchange and the
\* history table are as they were when the handler ends.
C27_OfferStoreFailure ==
  [][\A p \in Procs :
       /\ (Acts(p) /\ pc[p] \in {"off_get", "off_upd"} /\ resp'[p] = 500) =>
            /\ detentor_contrato' = detentor_contrato
            /\ roteador_contrato' = roteador_contrato
            /\ p \in Workers => reply'[p] = 500
       /\ (Acts(p) /\ IsOffer(msg[p]) /\ resp[p] = 500
             /\ pc[p] \notin {"idle", "done", "dead", "off_get", "off_upd"}) =>
            /\ detentor_contrato' = detentor_contrato
            /\ roteador_contrato' = roteador_contrato
            /\ historico_contrato' = historico_contrato]_vars

\* two installment lists of one length that differ only where both amounts
\* are missing, empty or zero
SameButZeros(p1, p2) ==
  /\ Len(p1) = Len(p2)
  /\ \A i \in 1..Len(p1) :
       \/ p1[i] = p2[i]
       \/ vr_parcela(p1[i]) = 0 /\ vr_parcela(p2[i]) = 0

\* the submitted payloads, by client, date and installments
Submissions == Cpfs \X Dates \X Parcelas

EligibilityHashOf(s) == make_eligiblity_hash(s[1], s[2], total_amount(s[3]), Len(s[3]))

\* two submissions get one eligibility hash exactly when client, date, sum
\* of the amounts and number of installments agree
EligibilityHashOverTotalAndCount ==
  \A s1 \in Submissions, s2 \in Submissions :
    EligibilityHashOf(s1) = EligibilityHashOf(s2)
      <=> /\ s1[1] = s2[1]
          /\ s1[2] = s2[2]
          /\ total_amount(s1[3]) = total_amount(s2[3])
          /\ Len(s1[3]) = Len(s2[3])

\* the insert messages in a queue or in a handler
InsertMessages ==
  {queue[duplicate_contract_queue][i] : i \in 1..Len(queue[duplicate_contract_queue])}
    \cup {msg[c] : c \in {k \in Consumers : IsInsert(msg[k])}}

\* C28: the eligibility hash of a submission is the hash of (cpf, contract
\* date, total, count), with total the sum of the installment amounts, a missing
\* or empty amount counting as zero, and count the number of installments; two
\* submissions that differ only in installments whose amount is missing, empty
\* or zero get the same eligibility hash.
C28_EligibilityHash ==
  /\ EligibilityHashOverTotalAndCount
  /\ \A m \in InsertMessages :
       m.hash_elegibilidade = EligibilityHashOf(<<m.payload.cliente.nuCpf,
                                                  m.payload.contrato.dtContrato,
                                                  m.payload.parcela>>)
  /\ \A m1 \in InsertMessages, m2 \in InsertMessages :
       ( /\ m1.payload.cliente.nuCpf = m2.payload.cliente.nuCpf
         /\ m1.payload.contrato.dtContrato = m2.payload.contrato.dtContrato
         /\ SameButZeros(m1.payload.parcela, m2.payload.parcela) )
         => m1.hash_elegibilidade = m2.hash_elegibilidade

\* two submissions were published whose installments differ in a missing and
\* a zero amount next to an amount that counts, and their hashes agree
C28_Witness ==
  \E m1 \in InsertMessages, m2 \in InsertMessages :
    /\ m1.payload.parcela # m2.payload.parcela
    /\ SameButZeros(m1.payload.parcela, m2.payload.parcela)
    /\ total_amount(m1.payload.parcela) > 0
    /\ m1.payload.cliente.nuCpf = m2.payload.cliente.nuCpf
    /\ m1.payload.contrato.dtContrato = m2.payload.contrato.dtContrato
    /\ m1.hash_elegibilidade = m2.hash_elegibilidade

\* C29: while the ownership table holds an item for a hash, no insert for
\* that hash is answered 200, whatever inserts and verdicts came before.
C29_NoInsertOnceEligible ==
  [][\A c \in Consumers :
       (Acts(c) /\ pc[c] = "ins_put" /\ resp'[c] = 200) =>
         GetItem(detentor_contrato, msg[c].hash_duplicidade) = {}]_vars

\* C30: a history item with action code 2 is put only by the handler of an
\* insert whose conditional put was answered 200, never by the handler of an
\* insert rejected as a duplicate.
C30_CodeTwoOnlyAfterAccepted ==
  [][\A p \in Procs :
       (Acts(p) /\ \E e \in Appended : e.en_acao = 2) =>
         /\ IsInsert(msg[p])
         /\ resp[p] = 200
         /\ \A e \in Appended : e.ud_hash_contrato = msg[p].hash_duplicidade]_vars

\* C31: when the handler of an insert answered 200 ends, by returning or by
\* an exception, the payload has been published under the routing key of its
\* assignee or the history table holds an item for the hash: an accepted
\* insert is not left with neither.
C31_AcceptedRoutedOrRecorded ==
  [][\A c \in Consumers :
       (Acts(c) /\ IsInsert(msg[c]) /\ resp[c] = 200 /\ pc'[c] \in {"idle", "dead"}) =>
         \/ \E i \in 1..Len(roteador_contrato') :
              /\ roteador_contrato'[i].body.content = msg[c].payload
              /\ roteador_contrato'[i].routing_key
                   = define_routing_key(Str(msg[c].payload.cessionario))
         \/ \E e \in historico_contrato' :
              e.ud_hash_contrato = msg[c].hash_duplicidade]_vars

\* C32: when an offer request of the API ends with a status other than 200,
\* the item of the hash in the ownership table is the one the request read:
\* the step that ends the request writes nothing and the holder read by
\* get_item is still the holder.
C32_FailedOfferKeepsHolder ==
  [][\A w \in Workers :
       (Acts(w) /\ IsOffer(msg'[w]) /\ pc'[w] = "done" /\ reply'[w] # 200) =>
         /\ detentor_contrato' = detentor_contrato
         /\ seen[w] # {} =>
              GetItem(detentor_contrato', msg[w].hash_duplicidade) = seen[w]]_vars

\* C33: the handler of a true verdict appends a history item with code 1 for
\* the hash only when the ownership table holds the item of the hash with the
\* cessionario of the verdict as holder; after a failed put no such item is
\* appended.
C33_CodeOneOnlyIfStored ==
  [][\A c \in Consumers :
       ( /\ Acts(c) /\ pc[c] = "el_hist" /\ IsEligibility(msg[c])
         /\ \E e \in Appended : e.en_acao = 1 ) =>
         \E item \in GetItem(detentor_contrato, HashOf(msg[c])) :
           item.tx_detentor = msg[c].cessionario]_vars

\* the contract number and the CCB number a message is about, as it writes them
NumberOf(m) ==
  IF IsEligibility(m) THEN m.nuContratoFacta ELSE m.payload.contrato.nuContratoCedente

CcbOf(m) ==
  IF IsEligibility(m) THEN m.nuContratoCCB ELSE m.payload.contrato.nuContratoCCB

\* the messages and requests being handled
InHand == {msg[p] : p \in {k \in Procs : msg[k] # NoMsg}}

\* C34: an insert, a verdict and an offer about one contract number and one
\* CCB number work on one key of the ledger tables, however each of them
\* writes the number: the hashes of two of them in hand are equal, and equal
\* to the key of the item an insert stored for the contract.
C34_SameLedgerKey ==
  /\ \A m1 \in InHand, m2 \in InHand :
       (int(NumberOf(m1)) = int(NumberOf(m2)) /\ Str(CcbOf(m1)) = Str(CcbOf(m2)))
         => HashOf(m1) = HashOf(m2)
  /\ \A m \in InHand, item \in inserir_contrato :
       ( /\ int(NumberOf(m)) = int(item.tx_nu_contrato)
         /\ Str(CcbOf(m)) = Value(item.ud_hash_contrato, "nuContratoCCB") )
         => HashOf(m) = item.ud_hash_contrato

\* C35: send_contract answers 200 only when its message was published: the
\* step that answers 200 puts the message of the request on the queue, and a
\* producer whose setup left it without a channel does not answer 200.
C35_SuccessOnlyIfPublished ==
  [][\A w \in Workers :
       (Acts(w) /\ IsInsert(msg[w]) /\ pc'[w] = "done" /\ reply'[w] = 200) =>
         queue'[duplicate_contract_queue]
           = Append(queue[duplicate_contract_queue], msg[w])]_vars

\* C36: a request for attachments is answered 404, with nothing published,
\* when the history table has no item for the hash, and is answered 200
\* otherwise, the attachment having gone once to each name of the items.
C36_AttachmentsAnswered ==
  [][\A w \in Workers :
       (Acts(w) /\ msg'[w].type = "attachment" /\ pc'[w] = "done") =>
         IF get_history(msg'[w].hash_duplicidade) = {}
           THEN /\ reply'[w] = 404
                /\ roteador_contrato' = roteador_contrato
                /\ queue' = queue
           ELSE reply'[w] = 200]_vars

\* C37: start_consuming on a consumer whose setup left channel = None
\* returns without raising, and no callback of that consumer is ever handed
\* a message.
C37_NoChannelReturns ==
  /\ [][\A c \in Consumers :
          (Acts(c) /\ pc[c] = "no_channel") => pc'[c] = "returned"]_vars
  /\ [][\A c \in Consumers :
          pc[c] \in {"no_channel", "returned", "dead"} => msg'[c] = msg[c]]_vars

====
